---- MODULE Spec2Model ----
(***************************************************************************)
(* celestia-watchtower: the monitoring engine (monitor.Engine), the status *)
(* evaluator (monitor.CheckNodeStatus), the alert manager                  *)
(* (alert.Manager.SendAlert) and the status store (monitor.SaveStatus /    *)
(* monitor.LoadStatus) as a state machine.                                 *)
(*                                                                         *)
(* Spec      : one `start` process: Engine.Start and its run loop, with    *)
(*             the ticker, the signal channel and the context as the       *)
(*             environment.                                                *)
(* SpecStore : the status store driven by a caller of SaveStatus and by    *)
(*             the `status --watch` reader (LoadStatus).                   *)
(***************************************************************************)
EXTENDS Integers, Sequences, FiniteSets, TLC

\* ---------------------------------------------------------------- bounds
\* Evaluation cycles (calls of runCheck) of one run of Start.
MaxCycles == 3
\* Calls of SaveStatus in SpecStore.
MaxSaves == 2
\* The width, in bits, at which the 64-bit integers are modelled.
IntBits == 16

\* ------------------------------------------------------ program constants
\* Capacity of ticker.C (time.NewTicker gives a channel of capacity 1).
TickerCap == 1
\* Capacity of sigCh: make(chan os.Signal, 1).
SigCap == 1
\* config.DefaultConfig thresholds.
BlocksBehindCritical == 10
MinPeersHealthy == 5
\* config.DefaultConfig check interval, in seconds.
DefaultCheckInterval == 60
\* config.DefaultConfig RPC endpoint.
DefaultRPCEndpoint == "http://localhost:26658"

\* A nil pointer / nil error.
None == [kind |-> "none"]

\* Start has not returned.
Pending == [kind |-> "pending"]

\* The five node queries, in the order CheckNodeStatus issues them.
Queries == <<"network height", "local height", "peer count", "NAT status", "bandwidth stats">>

\* The alert channels, in the order SendAlert tries them.
Channels == <<"Telegram", "Discord", "Twilio">>

ChannelSet == {Channels[i] : i \in 1..Len(Channels)}

\* ------------------------------------------------------- fixed-width ints
\* uint64 and int64 are modelled at a width of IntBits bits (TLC's
\* integers are 32 bits wide): values wrap at 2^IntBits exactly as the
\* program's wrap at 2^64.
SignBit == 2 ^ (IntBits - 1)

Modulus == 2 * SignBit

\* int64(u) for an unsigned u: the two's-complement reinterpretation.
ToInt64(u) == IF u >= SignBit THEN u - Modulus ELSE u

\* Signed wrap-around of a mathematical integer.
WrapInt64(x) == ((x + SignBit) % Modulus) - SignBit

\* ------------------------------------------------------------ the config
\* config.Config, the fields the engine reads.
Config(enabled, chans, interval) ==
    [ rpcEndpoint          |-> DefaultRPCEndpoint,
      alertsEnabled        |-> enabled,
      channels             |-> chans,
      checkInterval        |-> interval,
      blocksBehindCritical |-> BlocksBehindCritical,
      minPeersHealthy      |-> MinPeersHealthy ]

\* The configurations a run is started with. LoadConfig applies no default
\* and validates nothing, so a file without check_interval yields 0.
Configs ==
    { Config(en, ch, iv) :
        en \in BOOLEAN,
        ch \in {{}, ChannelSet},
        iv \in {0, DefaultCheckInterval} }

\* ------------------------------------------------------------ the client
\* What the node answers during one evaluation: the readings, and the query
\* that fails ("none": all five succeed).
Readings ==
    { [network |-> 1000, local |-> 985, peers |-> 3],
      [network |-> 1000, local |-> 995, peers |-> 6],
      [network |-> 1000, local |-> 995, peers |-> 3] }

Reply(r, f) ==
    [ network |-> r.network, local |-> r.local, peers |-> r.peers,
      nat |-> "Public",
      bandwidth |-> [totalIn |-> 2048, totalOut |-> 1024, rateIn |-> 512, rateOut |-> 256],
      fail |-> f ]

Failures == {Queries[i] : i \in 1..Len(Queries)} \cup {"none"}

\* time.Now(): the wall clock reading plus a monotonic clock reading.
TimeNow(t) == [wall |-> t, mono |-> TRUE]

\* ------------------------------------------------------- CheckNodeStatus
\* The result of CheckNodeStatus: the Status or nil, the error (the query
\* that failed) or nil, and the queries issued, in order.
\* Mutant of EvalError: the queries after the failed one are issued too.
EvalErrorAllQueried(q, n) == [status |-> None, err |-> q, calls |-> Queries]

EvalError(q, n) == [status |-> None, err |-> q, calls |-> SubSeq(Queries, 1, n)]

\* Mutant of CheckNodeStatus: the network check also depends on when the
\* evaluation runs.
CheckNodeStatusTimed(reply, cfg, t) ==
    LET heightDiff  == WrapInt64(ToInt64(reply.network) - ToInt64(reply.local))
        syncHealthy == heightDiff <= cfg.blocksBehindCritical
        netHealthy  == reply.peers >= cfg.minPeersHealthy /\ t % 2 = 1
    IN  IF reply.fail = Queries[1] THEN EvalError(Queries[1], 1)
        ELSE IF reply.fail = Queries[2] THEN EvalError(Queries[2], 2)
        ELSE IF reply.fail = Queries[3] THEN EvalError(Queries[3], 3)
        ELSE IF reply.fail = Queries[4] THEN EvalError(Queries[4], 4)
        ELSE IF reply.fail = Queries[5] THEN EvalError(Queries[5], 5)
        ELSE [ status |->
                 [ kind          |-> "status",
                   timestamp     |-> TimeNow(t),
                   networkHeight |-> reply.network,
                   localHeight   |-> reply.local,
                   heightDiff    |-> heightDiff,
                   syncHealthy   |-> syncHealthy,
                   peerCount     |-> reply.peers,
                   natStatus     |-> reply.nat,
                   netHealthy    |-> netHealthy,
                   bandwidth     |-> reply.bandwidth,
                   healthy       |-> syncHealthy /\ netHealthy ],
               err   |-> "none",
               calls |-> Queries ]

\* Mutant of CheckNodeStatus: a node exactly at a threshold is unhealthy.
CheckNodeStatusStrict(reply, cfg, t) ==
    LET heightDiff  == WrapInt64(ToInt64(reply.network) - ToInt64(reply.local))
        syncHealthy == heightDiff < cfg.blocksBehindCritical
        netHealthy  == reply.peers > cfg.minPeersHealthy
    IN  IF reply.fail = Queries[1] THEN EvalError(Queries[1], 1)
        ELSE IF reply.fail = Queries[2] THEN EvalError(Queries[2], 2)
        ELSE IF reply.fail = Queries[3] THEN EvalError(Queries[3], 3)
        ELSE IF reply.fail = Queries[4] THEN EvalError(Queries[4], 4)
        ELSE IF reply.fail = Queries[5] THEN EvalError(Queries[5], 5)
        ELSE [ status |->
                 [ kind          |-> "status",
                   timestamp     |-> TimeNow(t),
                   networkHeight |-> reply.network,
                   localHeight   |-> reply.local,
                   heightDiff    |-> heightDiff,
                   syncHealthy   |-> syncHealthy,
                   peerCount     |-> reply.peers,
                   natStatus     |-> reply.nat,
                   netHealthy    |-> netHealthy,
                   bandwidth     |-> reply.bandwidth,
                   healthy       |-> syncHealthy /\ netHealthy ],
               err   |-> "none",
               calls |-> Queries ]

CheckNodeStatus(reply, cfg, t) ==
    LET heightDiff  == WrapInt64(ToInt64(reply.network) - ToInt64(reply.local))
        syncHealthy == heightDiff <= cfg.blocksBehindCritical
        netHealthy  == reply.peers >= cfg.minPeersHealthy
    IN  IF reply.fail = Queries[1] THEN EvalError(Queries[1], 1)
        ELSE IF reply.fail = Queries[2] THEN EvalError(Queries[2], 2)
        ELSE IF reply.fail = Queries[3] THEN EvalError(Queries[3], 3)
        ELSE IF reply.fail = Queries[4] THEN EvalError(Queries[4], 4)
        ELSE IF reply.fail = Queries[5] THEN EvalError(Queries[5], 5)
        ELSE [ status |->
                 [ kind          |-> "status",
                   timestamp     |-> TimeNow(t),
                   networkHeight |-> reply.network,
                   localHeight   |-> reply.local,
                   heightDiff    |-> heightDiff,
                   syncHealthy   |-> syncHealthy,
                   peerCount     |-> reply.peers,
                   natStatus     |-> reply.nat,
                   netHealthy    |-> netHealthy,
                   bandwidth     |-> reply.bandwidth,
                   healthy       |-> syncHealthy /\ netHealthy ],
               err   |-> "none",
               calls |-> Queries ]

\* ------------------------------------------------------------- SendAlert
\* Mutant of AlertMessage: the sync section is always written.
AlertMessageSyncAlways(status, cfg) ==
    [ time  |-> status.timestamp.wall,
      sync  |-> [ behind  |-> status.heightDiff,
                  local   |-> status.localHeight,
                  network |-> status.networkHeight ],
      peers |-> IF ~status.netHealthy
                THEN [ count |-> status.peerCount,
                       min   |-> cfg.minPeersHealthy,
                       nat   |-> status.natStatus ]
                ELSE None ]

\* The message sendAlerts builds: the timestamp, the sync section when the
\* sync check failed, the peers section when the peers check failed.
AlertMessage(status, cfg) ==
    [ time  |-> status.timestamp.wall,
      sync  |-> IF ~status.syncHealthy
                THEN [ behind  |-> status.heightDiff,
                       local   |-> status.localHeight,
                       network |-> status.networkHeight ]
                ELSE None,
      peers |-> IF ~status.netHealthy
                THEN [ count |-> status.peerCount,
                       min   |-> cfg.minPeersHealthy,
                       nat   |-> status.natStatus ]
                ELSE None ]

\* The channels of `order` (a sequence) that are in the set `S`, in order.
RECURSIVE Filter(_, _)
Filter(order, S) ==
    IF order = <<>> THEN <<>>
    ELSE (IF Head(order) \in S THEN <<Head(order)>> ELSE <<>>) \o Filter(Tail(order), S)

\* Mutant of SendAlert: the first failed send ends the call.
SendAlertFirstFailureEnds(cfg, message, failing) ==
    IF ~cfg.alertsEnabled
    THEN [tried |-> <<>>, err |-> None]
    ELSE LET all    == Filter(Channels, cfg.channels)
             bad    == {i \in 1..Len(all) : all[i] \in failing}
             last   == IF bad = {} THEN Len(all)
                       ELSE CHOOSE i \in bad : \A j \in bad : i <= j
             tried  == SubSeq(all, 1, last)
             failed == Filter(tried, failing)
         IN  [ tried |-> tried,
               err   |-> IF Len(failed) > 0
                         THEN [kind |-> "alert", channels |-> failed]
                         ELSE None ]

\* Manager.SendAlert(message) when the sends to the channels in `failing`
\* fail: the channels tried, in order, and the error (the failed channels,
\* in order) or nil.
SendAlert(cfg, message, failing) ==
    IF ~cfg.alertsEnabled
    THEN [tried |-> <<>>, err |-> None]
    ELSE LET tried  == Filter(Channels, cfg.channels)
             failed == Filter(tried, failing)
         IN  [ tried |-> tried,
               err   |-> IF Len(failed) > 0
                         THEN [kind |-> "alert", channels |-> failed]
                         ELSE None ]

\* Mutant of ShouldAlert: the global alert flag is left to SendAlert.
ShouldAlertIgnoresFlag(status, cfg) == ~status.healthy

\* Mutant of ShouldAlert: the health of the snapshot is not looked at.
ShouldAlertAlways(status, cfg) == cfg.alertsEnabled

\* runCheck's condition for calling sendAlerts.
ShouldAlert(status, cfg) == ~status.healthy /\ cfg.alertsEnabled

\* ------------------------------------------------------------- NewEngine
\* rpc.NewClient(ctx, rpcEndpoint, authToken); `dialFails` is whether
\* openrpc.NewClient fails. `opened` counts the calls of openrpc.NewClient.
NewClient(rpcEndpoint, dialFails) ==
    IF rpcEndpoint = ""
    THEN [ client |-> None, opened |-> 0,
           err |-> [kind |-> "RPC endpoint cannot be empty", cause |-> None] ]
    ELSE IF dialFails
    THEN [ client |-> None, opened |-> 1,
           err |-> [ kind  |-> "failed to create RPC client",
                     cause |-> [kind |-> "openrpc", cause |-> None] ] ]
    ELSE [ client |-> [kind |-> "client", endpoint |-> rpcEndpoint],
           opened |-> 1, err |-> None ]

\* Mutant of NewEngine: the endpoint is left to rpc.NewClient to validate.
NewEngineNoEndpointCheck(cfg, debug, dialFails) ==
    IF cfg = None
    THEN [ engine |-> None, printed |-> 0, clientCalls |-> 0, opened |-> 0,
           err |-> [kind |-> "configuration is nil", cause |-> None] ]
    ELSE LET made == NewClient(cfg.rpcEndpoint, dialFails)
         IN  [ engine |-> IF made.err = None
                          THEN [ client |-> made.client, config |-> cfg,
                                 lastStatus |-> None, isDebugMode |-> debug ]
                          ELSE None,
               printed |-> IF debug THEN 2 ELSE 0,
               clientCalls |-> 1,
               opened |-> made.opened,
               err |-> IF made.err = None THEN None
                       ELSE [ kind  |-> "failed to create RPC client",
                              cause |-> made.err ] ]

\* NewEngine(cfg, isDebugMode): the Engine or nil, the error or nil (its
\* message and the error it wraps), the debug lines printed, the calls of
\* rpc.NewClient and of openrpc.NewClient made.
NewEngine(cfg, debug, dialFails) ==
    IF cfg = None
    THEN [ engine |-> None, printed |-> 0, clientCalls |-> 0, opened |-> 0,
           err |-> [kind |-> "configuration is nil", cause |-> None] ]
    ELSE IF cfg.rpcEndpoint = ""
    THEN [ engine |-> None, printed |-> IF debug THEN 2 ELSE 0,
           clientCalls |-> 0, opened |-> 0,
           err |-> [kind |-> "RPC endpoint cannot be empty", cause |-> None] ]
    ELSE LET made == NewClient(cfg.rpcEndpoint, dialFails)
         IN  [ engine |-> IF made.err = None
                          THEN [ client |-> made.client, config |-> cfg,
                                 lastStatus |-> None, isDebugMode |-> debug ]
                          ELSE None,
               printed |-> IF debug THEN 2 ELSE 0,
               clientCalls |-> 1,
               opened |-> made.opened,
               err |-> IF made.err = None THEN None
                       ELSE [ kind  |-> "failed to create RPC client",
                              cause |-> made.err ] ]

\* ----------------------------------------------------------------- state
VARIABLES
    config,        \* Engine.config
    isDebugMode,   \* Engine.isDebugMode
    lastStatus,    \* Engine.lastStatus
    ctxDone,       \* Engine.ctx is cancelled
    pc,            \* where the goroutine that runs Start is
    cur,           \* runCheck's local `status`
    err,           \* the error runCheck returns to Start
    ret,           \* what Start returned
    tickerOn,      \* the ticker of Start is running
    tickerC,       \* ticker.C
    sigOn,         \* signal.Notify(sigCh, ...) is in effect
    sigCh,         \* sigCh
    now,           \* the clock: one reading per evaluation
    calls,         \* the queries the client received in the last evaluation
    stdout,        \* the lines printed
    alerts,        \* the calls of SendAlert: the message and the channels tried
    afterRequest,  \* cycles begun while a termination request was pending
    dirExists,     \* the config directory exists
    file,          \* the status file
    svPc,          \* where the caller of SaveStatus is
    svArg,         \* the Status it saves
    saves,         \* calls of SaveStatus so far
    rdPc,          \* where the reader (LoadStatus) is
    loadRes,       \* what the last LoadStatus returned
    newArg,        \* the arguments of a call of NewEngine, and its environment
    newRes,        \* what that call returned
    evArg,         \* the arguments of a call of CheckNodeStatus
    evRes,         \* what that call returned
    saArg,         \* the arguments of a call of SendAlert
    saRes          \* what that call returned

engineVars == <<config, isDebugMode, lastStatus, ctxDone, pc, cur, err, ret,
                tickerOn, tickerC, sigOn, sigCh, now, calls, stdout, alerts,
                afterRequest>>

storeVars == <<dirExists, file, svPc, svArg, saves, rdPc, loadRes>>

callVars == <<newArg, newRes, evArg, evRes, saArg, saRes>>

vars == <<engineVars, storeVars, callVars>>

\* The status file of a fresh installation.
NoFile == [exists |-> FALSE, data |-> <<>>]

\* NewEngine's result: lastStatus nil, the context live, nothing started.
EngineInit ==
    /\ lastStatus = None
    /\ ctxDone = FALSE
    /\ cur = None
    /\ err = None
    /\ ret = Pending
    /\ tickerOn = FALSE
    /\ tickerC = <<>>
    /\ sigOn = FALSE
    /\ sigCh = <<>>
    /\ now = 0
    /\ calls = <<>>
    /\ stdout = <<>>
    /\ alerts = <<>>
    /\ afterRequest = 0

\* A fresh installation: no config directory, no status file.
StoreInit ==
    /\ dirExists = FALSE
    /\ file = NoFile
    /\ svPc = "idle"
    /\ svArg = None
    /\ saves = 0
    /\ rdPc = "idle"
    /\ loadRes = None

\* No call of NewEngine, CheckNodeStatus or SendAlert is being observed.
NoCalls ==
    /\ newArg = None
    /\ newRes = None
    /\ evArg = None
    /\ evRes = None
    /\ saArg = None
    /\ saRes = None

\* The engine as cmd/start.go has it after NewEngine(cfg, isDebugMode)
\* returned it.
Init ==
    /\ config \in Configs
    /\ isDebugMode \in BOOLEAN
    /\ pc = "idle"
    /\ EngineInit
    /\ StoreInit
    /\ NoCalls

\* ---------------------------------------------------------------- output
\* printInfoStatus: the summary line of a snapshot.
InfoLine(status) ==
    [ kind    |-> "info",
      time    |-> status.timestamp.wall,
      healthy |-> status.healthy,
      local   |-> status.localHeight,
      network |-> status.networkHeight,
      peers   |-> status.peerCount ]

\* printDebugStatus: the three lines of the breakdown.
DebugLines(status) ==
    << [kind |-> "debug", part |-> "sync", time |-> status.timestamp.wall,
        ok |-> status.syncHealthy],
       [kind |-> "debug", part |-> "network", time |-> status.timestamp.wall,
        ok |-> status.netHealthy],
       [kind |-> "debug", part |-> "bandwidth", time |-> status.timestamp.wall,
        ok |-> TRUE] >>

\* logError("Initial check failed: ...") / logError("Check failed: ...").
ErrorLine(initial) == [kind |-> "error", initial |-> initial]

\* A termination request is pending: a signal is queued or the context is
\* cancelled.
Requested == ctxDone \/ Len(sigCh) > 0

\* A call of runCheck is in progress.
InCycle == pc \in {"eval", "update", "print", "alert", "logErr"}

\* ------------------------------------------------------------- Engine.Start
\* Start, up to the initial check: the two start-up lines, signal.Notify,
\* time.NewTicker, then the call of runCheck.
StartBanner == <<[kind |-> "started"], [kind |-> "monitoring"]>>

\* Mutant of StartOk: Start goes to the select without the initial check.
StartOkNoInitialCheck ==
    /\ pc = "idle"
    /\ config.checkInterval > 0
    /\ stdout' = stdout \o StartBanner
    /\ sigOn' = TRUE
    /\ tickerOn' = TRUE
    /\ pc' = "select"
    /\ UNCHANGED <<config, isDebugMode, lastStatus, ctxDone, cur, err, ret,
                   tickerC, sigCh, now, calls, alerts, afterRequest>>
    /\ UNCHANGED <<storeVars, callVars>>

StartOk ==
    /\ pc = "idle"
    /\ config.checkInterval > 0
    /\ stdout' = stdout \o StartBanner
    /\ sigOn' = TRUE
    /\ tickerOn' = TRUE
    /\ pc' = "eval"
    /\ UNCHANGED <<config, isDebugMode, lastStatus, ctxDone, cur, err, ret,
                   tickerC, sigCh, now, calls, alerts, afterRequest>>
    /\ UNCHANGED <<storeVars, callVars>>

\* time.NewTicker panics on a non-positive interval.
StartPanic ==
    /\ pc = "idle"
    /\ config.checkInterval <= 0
    /\ stdout' = stdout \o StartBanner
    /\ sigOn' = TRUE
    /\ pc' = "panic"
    /\ UNCHANGED <<config, isDebugMode, lastStatus, ctxDone, cur, err, ret,
                   tickerOn, tickerC, sigCh, now, calls, alerts, afterRequest>>
    /\ UNCHANGED <<storeVars, callVars>>

\* ---------------------------------------------------------- Engine.runCheck
\* Mutant of Evaluate: e.lastStatus = status is done before the error of
\* CheckNodeStatus is looked at.
EvaluateStoresFirst ==
    /\ pc = "eval"
    /\ \E r \in Readings, f \in Failures :
         LET res == CheckNodeStatus(Reply(r, f), config, now + 1)
         IN  /\ now' = now + 1
             /\ calls' = res.calls
             /\ lastStatus' = res.status
             /\ IF res.err = "none"
                THEN /\ cur' = res.status
                     /\ err' = None
                     /\ pc' = "update"
                ELSE /\ cur' = None
                     /\ err' = [kind |-> "check", query |-> res.err]
                     /\ pc' = "logErr"
    /\ UNCHANGED <<config, isDebugMode, ctxDone, ret, tickerOn,
                   tickerC, sigOn, sigCh, stdout, alerts, afterRequest>>
    /\ UNCHANGED <<storeVars, callVars>>

\* status, err := CheckNodeStatus(e.client, e.config); on an error runCheck
\* returns it.
Evaluate ==
    /\ pc = "eval"
    /\ \E r \in Readings, f \in Failures :
         LET res == CheckNodeStatus(Reply(r, f), config, now + 1)
         IN  /\ now' = now + 1
             /\ calls' = res.calls
             /\ IF res.err = "none"
                THEN /\ cur' = res.status
                     /\ err' = None
                     /\ pc' = "update"
                ELSE /\ cur' = None
                     /\ err' = [kind |-> "check", query |-> res.err]
                     /\ pc' = "logErr"
    /\ UNCHANGED <<config, isDebugMode, lastStatus, ctxDone, ret, tickerOn,
                   tickerC, sigOn, sigCh, stdout, alerts, afterRequest>>
    /\ UNCHANGED <<storeVars, callVars>>

\* Mutant of UpdateLast: only the first snapshot is kept.
UpdateLastKeepsFirst ==
    /\ pc = "update"
    /\ lastStatus' = IF lastStatus = None THEN cur ELSE lastStatus
    /\ pc' = "print"
    /\ UNCHANGED <<config, isDebugMode, ctxDone, cur, err, ret, tickerOn,
                   tickerC, sigOn, sigCh, now, calls, stdout, alerts,
                   afterRequest>>
    /\ UNCHANGED <<storeVars, callVars>>

\* e.lastStatus = status
UpdateLast ==
    /\ pc = "update"
    /\ lastStatus' = cur
    /\ pc' = "print"
    /\ UNCHANGED <<config, isDebugMode, ctxDone, cur, err, ret, tickerOn,
                   tickerC, sigOn, sigCh, now, calls, stdout, alerts,
                   afterRequest>>
    /\ UNCHANGED <<storeVars, callVars>>

\* Mutant of PrintStatus: an unhealthy snapshot is left to the alert, no
\* line is printed for it.
PrintStatusHealthyOnly ==
    /\ pc = "print"
    /\ stdout' = IF cur.healthy
                 THEN stdout \o <<InfoLine(cur)>>
                             \o (IF isDebugMode THEN DebugLines(cur) ELSE <<>>)
                 ELSE stdout
    /\ pc' = "alert"
    /\ UNCHANGED <<config, isDebugMode, lastStatus, ctxDone, cur, err, ret,
                   tickerOn, tickerC, sigOn, sigCh, now, calls, alerts,
                   afterRequest>>
    /\ UNCHANGED <<storeVars, callVars>>

\* e.printInfoStatus(status), and e.printDebugStatus(status) in debug mode.
PrintStatus ==
    /\ pc = "print"
    /\ stdout' = stdout \o <<InfoLine(cur)>>
                        \o (IF isDebugMode THEN DebugLines(cur) ELSE <<>>)
    /\ pc' = "alert"
    /\ UNCHANGED <<config, isDebugMode, lastStatus, ctxDone, cur, err, ret,
                   tickerOn, tickerC, sigOn, sigCh, now, calls, alerts,
                   afterRequest>>
    /\ UNCHANGED <<storeVars, callVars>>

\* if !status.Healthy && e.config.Alerts.Enabled { e.sendAlerts(status) }:
\* the message goes to SendAlert; its error is returned by runCheck.
Alert ==
    /\ pc = "alert"
    /\ ShouldAlert(cur, config)
    /\ \E failing \in SUBSET ChannelSet :
         LET msg == AlertMessage(cur, config)
             res == SendAlert(config, msg, failing)
         IN  /\ alerts' = Append(alerts, [message |-> msg, tried |-> res.tried])
             /\ err' = res.err
             /\ IF res.err = None
                THEN /\ pc' = "select"
                     /\ cur' = None
                ELSE /\ pc' = "logErr"
                     /\ cur' = cur
    /\ UNCHANGED <<config, isDebugMode, lastStatus, ctxDone, ret, tickerOn,
                   tickerC, sigOn, sigCh, now, calls, stdout, afterRequest>>
    /\ UNCHANGED <<storeVars, callVars>>

\* The condition is false: runCheck returns nil.
NoAlert ==
    /\ pc = "alert"
    /\ ~ShouldAlert(cur, config)
    /\ pc' = "select"
    /\ cur' = None
    /\ UNCHANGED <<config, isDebugMode, lastStatus, ctxDone, err, ret,
                   tickerOn, tickerC, sigOn, sigCh, now, calls, stdout,
                   alerts, afterRequest>>
    /\ UNCHANGED <<storeVars, callVars>>

\* Mutant of LogError: Start returns the error of runCheck.
LogErrorReturns ==
    /\ pc = "logErr"
    /\ stdout' = Append(stdout, ErrorLine(now = 1))
    /\ ret' = err
    /\ err' = None
    /\ cur' = None
    /\ tickerOn' = FALSE
    /\ pc' = "returned"
    /\ UNCHANGED <<config, isDebugMode, lastStatus, ctxDone, tickerC, sigOn,
                   sigCh, now, calls, alerts, afterRequest>>
    /\ UNCHANGED <<storeVars, callVars>>

\* if err := e.runCheck(); err != nil { logError(...) }: Start logs the
\* error and goes on to the select.
LogError ==
    /\ pc = "logErr"
    /\ stdout' = Append(stdout, ErrorLine(now = 1))
    /\ err' = None
    /\ cur' = None
    /\ pc' = "select"
    /\ UNCHANGED <<config, isDebugMode, lastStatus, ctxDone, ret, tickerOn,
                   tickerC, sigOn, sigCh, now, calls, alerts, afterRequest>>
    /\ UNCHANGED <<storeVars, callVars>>

\* ------------------------------------------------- the select of Start
\* case <-ticker.C: a tick is taken and runCheck is called. Go's select
\* picks any ready case, so this one may be taken while a signal or the
\* cancellation is ready too.
RecvTick ==
    /\ pc = "select"
    /\ Len(tickerC) > 0
    /\ now < MaxCycles
    /\ tickerC' = Tail(tickerC)
    /\ pc' = "eval"
    /\ afterRequest' = IF Requested THEN afterRequest + 1 ELSE afterRequest
    /\ UNCHANGED <<config, isDebugMode, lastStatus, ctxDone, cur, err, ret,
                   tickerOn, sigOn, sigCh, now, calls, stdout, alerts>>
    /\ UNCHANGED <<storeVars, callVars>>

\* case <-sigCh: "Shutting down...", e.Stop(), return nil (and the
\* deferred ticker.Stop()).
RecvSignal ==
    /\ pc = "select"
    /\ Len(sigCh) > 0
    /\ sigCh' = Tail(sigCh)
    /\ stdout' = Append(stdout, [kind |-> "shutdown"])
    /\ ctxDone' = TRUE
    /\ tickerOn' = FALSE
    /\ ret' = None
    /\ pc' = "returned"
    /\ UNCHANGED <<config, isDebugMode, lastStatus, cur, err, tickerC, sigOn,
                   now, calls, alerts, afterRequest>>
    /\ UNCHANGED <<storeVars, callVars>>

\* Mutant of RecvDone: Start returns e.ctx.Err().
RecvDoneCtxErr ==
    /\ pc = "select"
    /\ ctxDone
    /\ tickerOn' = FALSE
    /\ ret' = [kind |-> "context canceled"]
    /\ pc' = "returned"
    /\ UNCHANGED <<config, isDebugMode, lastStatus, ctxDone, cur, err,
                   tickerC, sigOn, sigCh, now, calls, stdout, alerts,
                   afterRequest>>
    /\ UNCHANGED <<storeVars, callVars>>

\* case <-e.ctx.Done(): return nil (and the deferred ticker.Stop()).
RecvDone ==
    /\ pc = "select"
    /\ ctxDone
    /\ tickerOn' = FALSE
    /\ ret' = None
    /\ pc' = "returned"
    /\ UNCHANGED <<config, isDebugMode, lastStatus, ctxDone, cur, err,
                   tickerC, sigOn, sigCh, now, calls, stdout, alerts,
                   afterRequest>>
    /\ UNCHANGED <<storeVars, callVars>>

\* -------------------------------------------------------- the environment
\* Mutant of TickerFire: every tick is queued, none is dropped.
TickerFireQueuesAll ==
    /\ tickerOn
    /\ tickerC' = Append(tickerC, "tick")
    /\ UNCHANGED <<config, isDebugMode, lastStatus, ctxDone, pc, cur, err,
                   ret, tickerOn, sigOn, sigCh, now, calls, stdout, alerts,
                   afterRequest>>
    /\ UNCHANGED <<storeVars, callVars>>

\* The ticker fires: the tick is queued if ticker.C has room and dropped
\* otherwise.
TickerFire ==
    /\ tickerOn
    /\ tickerC' = IF Len(tickerC) < TickerCap THEN Append(tickerC, "tick") ELSE tickerC
    /\ UNCHANGED <<config, isDebugMode, lastStatus, ctxDone, pc, cur, err,
                   ret, tickerOn, sigOn, sigCh, now, calls, stdout, alerts,
                   afterRequest>>
    /\ UNCHANGED <<storeVars, callVars>>

\* SIGINT or SIGTERM arrives while Start runs: the signal is queued if
\* sigCh has room and dropped otherwise. Start never looks at which of the
\* two it takes from sigCh, so the queued value is one token for both.
Signal ==
    /\ sigOn
    /\ pc \notin {"returned", "panic"}
    /\ sigCh' = IF Len(sigCh) < SigCap THEN Append(sigCh, "signal") ELSE sigCh
    /\ UNCHANGED <<config, isDebugMode, lastStatus, ctxDone, pc, cur, err,
                   ret, tickerOn, tickerC, sigOn, now, calls, stdout, alerts,
                   afterRequest>>
    /\ UNCHANGED <<storeVars, callVars>>

\* Engine.Stop(), called by another goroutine: e.cancel().
Stop ==
    /\ pc \notin {"new", "exit", "returned", "panic"}
    /\ ~ctxDone
    /\ ctxDone' = TRUE
    /\ UNCHANGED <<config, isDebugMode, lastStatus, pc, cur, err, ret,
                   tickerOn, tickerC, sigOn, sigCh, now, calls, stdout,
                   alerts, afterRequest>>
    /\ UNCHANGED <<storeVars, callVars>>

Next ==
    \/ StartOk
    \/ StartPanic
    \/ Evaluate
    \/ UpdateLast
    \/ PrintStatus
    \/ Alert
    \/ NoAlert
    \/ LogError
    \/ RecvTick
    \/ RecvSignal
    \/ RecvDone
    \/ TickerFire
    \/ Signal
    \/ Stop

Spec == Init /\ [][Next]_vars

\* -------------------------------------------------------- the status store
\* json.Marshal(status): the object with the json tags of Status. A
\* time.Time is written as its wall clock reading (RFC 3339); the monotonic
\* reading is not written. The bytes are modelled as three chunks.
Encode(status) ==
    [ timestamp      |-> status.timestamp.wall,
      network_height |-> status.networkHeight,
      local_height   |-> status.localHeight,
      height_diff    |-> status.heightDiff,
      sync_healthy   |-> status.syncHealthy,
      peer_count     |-> status.peerCount,
      nat_status     |-> status.natStatus,
      net_healthy    |-> status.netHealthy,
      bandwidth      |-> [ total_in  |-> status.bandwidth.totalIn,
                           total_out |-> status.bandwidth.totalOut,
                           rate_in   |-> status.bandwidth.rateIn,
                           rate_out  |-> status.bandwidth.rateOut ],
      healthy        |-> status.healthy ]

Marshal(status) == <<"{", Encode(status), "}">>

\* Mutant of Decode: the tag of HeightDiff does not match the key written,
\* so the field keeps its zero value.
DecodeTagMismatch(obj) ==
    [ kind          |-> "status",
      timestamp     |-> [wall |-> obj.timestamp, mono |-> FALSE],
      networkHeight |-> obj.network_height,
      localHeight   |-> obj.local_height,
      heightDiff    |-> 0,
      syncHealthy   |-> obj.sync_healthy,
      peerCount     |-> obj.peer_count,
      natStatus     |-> obj.nat_status,
      netHealthy    |-> obj.net_healthy,
      bandwidth     |-> [ totalIn  |-> obj.bandwidth.total_in,
                          totalOut |-> obj.bandwidth.total_out,
                          rateIn   |-> obj.bandwidth.rate_in,
                          rateOut  |-> obj.bandwidth.rate_out ],
      healthy       |-> obj.healthy ]

\* The Status json.Unmarshal fills from an object.
Decode(obj) ==
    [ kind          |-> "status",
      timestamp     |-> [wall |-> obj.timestamp, mono |-> FALSE],
      networkHeight |-> obj.network_height,
      localHeight   |-> obj.local_height,
      heightDiff    |-> obj.height_diff,
      syncHealthy   |-> obj.sync_healthy,
      peerCount     |-> obj.peer_count,
      natStatus     |-> obj.nat_status,
      netHealthy    |-> obj.net_healthy,
      bandwidth     |-> [ totalIn  |-> obj.bandwidth.total_in,
                          totalOut |-> obj.bandwidth.total_out,
                          rateIn   |-> obj.bandwidth.rate_in,
                          rateOut  |-> obj.bandwidth.rate_out ],
      healthy       |-> obj.healthy ]

\* json.Unmarshal(data, status): empty or truncated input is a syntax
\* error ("unexpected end of JSON input").
Unmarshal(data) ==
    IF Len(data) = 3
    THEN [kind |-> "ok", status |-> Decode(data[2])]
    ELSE [kind |-> "CorruptData"]

\* LoadStatus on a file that does not change while it runs.
LoadStatus(f) ==
    IF ~f.exists THEN [kind |-> "NotFound"] ELSE Unmarshal(f.data)

\* The snapshots a caller hands to SaveStatus: what an evaluation at time t
\* returns. A caller may hand over the snapshot it saved before.
Snapshot(r, t) ==
    CheckNodeStatus(Reply(r, "none"), Config(FALSE, {}, DefaultCheckInterval), t).status

\* SaveStatus(status), up to os.WriteFile: the paths, os.MkdirAll(configDir)
\* and json.Marshal.
SaveBegin ==
    /\ svPc = "idle"
    /\ saves < MaxSaves
    /\ \E r \in Readings, t \in 1..(saves + 1) : svArg' = Snapshot(r, t)
    /\ dirExists' = TRUE
    /\ svPc' = "open"
    /\ UNCHANGED <<file, saves, rdPc, loadRes>>
    /\ UNCHANGED <<engineVars, callVars>>

\* os.WriteFile opens the file with O_WRONLY|O_CREATE|O_TRUNC: the file
\* exists and is empty.
SaveOpen ==
    /\ svPc = "open"
    /\ file' = [exists |-> TRUE, data |-> <<>>]
    /\ svPc' = "write"
    /\ UNCHANGED <<dirExists, svArg, saves, rdPc, loadRes>>
    /\ UNCHANGED <<engineVars, callVars>>

\* os.WriteFile writes the bytes: some or all of what is left becomes
\* visible to readers; after the last chunk SaveStatus returns nil.
SaveWrite ==
    /\ svPc = "write"
    /\ \E n \in (Len(file.data) + 1)..Len(Marshal(svArg)) :
         /\ file' = [exists |-> TRUE, data |-> SubSeq(Marshal(svArg), 1, n)]
         /\ IF n = Len(Marshal(svArg))
            THEN /\ svPc' = "idle"
                 /\ saves' = saves + 1
            ELSE /\ svPc' = "write"
                 /\ saves' = saves
    /\ UNCHANGED <<dirExists, svArg, rdPc, loadRes>>
    /\ UNCHANGED <<engineVars, callVars>>

\* Mutant of LoadStat: a missing file is not told apart, the read goes on.
LoadStatNoCheck ==
    /\ rdPc = "idle"
    /\ rdPc' = "read"
    /\ loadRes' = None
    /\ UNCHANGED <<dirExists, file, svPc, svArg, saves>>
    /\ UNCHANGED <<engineVars, callVars>>

\* LoadStatus: os.Stat(statusFile); a missing file is reported.
LoadStat ==
    /\ rdPc = "idle"
    /\ IF file.exists
       THEN /\ rdPc' = "read"
            /\ loadRes' = None
       ELSE /\ rdPc' = "idle"
            /\ loadRes' = [kind |-> "NotFound"]
    /\ UNCHANGED <<dirExists, file, svPc, svArg, saves>>
    /\ UNCHANGED <<engineVars, callVars>>

\* LoadStatus: os.ReadFile(statusFile) and json.Unmarshal.
LoadRead ==
    /\ rdPc = "read"
    /\ loadRes' = Unmarshal(file.data)
    /\ rdPc' = "idle"
    /\ UNCHANGED <<dirExists, file, svPc, svArg, saves>>
    /\ UNCHANGED <<engineVars, callVars>>

NextStore ==
    \/ SaveBegin
    \/ SaveOpen
    \/ SaveWrite
    \/ LoadStat
    \/ LoadRead

InitStore ==
    /\ Init
    /\ config = Config(FALSE, {}, DefaultCheckInterval)
    /\ isDebugMode = FALSE

SpecStore == InitStore /\ [][NextStore]_vars

\* ------------------------------------------------- from NewEngine onwards
\* The calls NewEngine(cfg, isDebugMode) explored: no configuration, or one
\* with or without an endpoint; and whether openrpc.NewClient would fail.
NewArgs ==
    { [cfg |-> c, debug |-> d, dialFails |-> x] :
        c \in {None} \cup
              { [Config(TRUE, ChannelSet, iv) EXCEPT !.rpcEndpoint = e] :
                  iv \in {0, DefaultCheckInterval},
                  e \in {"", DefaultRPCEndpoint} },
        d \in BOOLEAN, x \in BOOLEAN }

\* cmd start before it calls NewEngine: there is no engine yet.
InitNew ==
    /\ config = None
    /\ isDebugMode = FALSE
    /\ pc = "new"
    /\ EngineInit
    /\ StoreInit
    /\ newArg \in NewArgs
    /\ newRes = None
    /\ evArg = None
    /\ evRes = None
    /\ saArg = None
    /\ saRes = None

\* cmd start calls NewEngine: with an Engine it goes on to Start, with an
\* error it prints it and exits.
CallNewEngine ==
    /\ pc = "new"
    /\ LET res == NewEngine(newArg.cfg, newArg.debug, newArg.dialFails)
       IN  /\ newRes' = res
           /\ IF res.err = None
              THEN /\ config' = res.engine.config
                   /\ isDebugMode' = res.engine.isDebugMode
                   /\ lastStatus' = res.engine.lastStatus
                   /\ pc' = "idle"
              ELSE /\ pc' = "exit"
                   /\ UNCHANGED <<config, isDebugMode, lastStatus>>
    /\ UNCHANGED <<ctxDone, cur, err, ret, tickerOn, tickerC, sigOn, sigCh,
                   now, calls, stdout, alerts, afterRequest>>
    /\ UNCHANGED <<storeVars, newArg, evArg, evRes, saArg, saRes>>

NextNew ==
    \/ CallNewEngine
    \/ Next

SpecNew == InitNew /\ [][NextNew]_vars

\* ------------------------------------------------- SendAlert on its own
\* The calls SendAlert(message) explored: the alerts section of the
\* configuration, the message of an unhealthy snapshot, and the channels
\* whose send fails.
AlertArgs ==
    { [ cfg     |-> Config(en, ch, DefaultCheckInterval),
        message |-> AlertMessage(Snapshot(r, 1), Config(en, ch, DefaultCheckInterval)),
        failing |-> f ] :
        en \in BOOLEAN, ch \in SUBSET ChannelSet,
        r \in {x \in Readings : ~Snapshot(x, 1).healthy},
        f \in SUBSET ChannelSet }

InitAlert ==
    /\ config = Config(FALSE, {}, DefaultCheckInterval)
    /\ isDebugMode = FALSE
    /\ pc = "idle"
    /\ EngineInit
    /\ StoreInit
    /\ newArg = None
    /\ newRes = None
    /\ evArg = None
    /\ evRes = None
    /\ saArg \in AlertArgs
    /\ saRes = None

\* One call of Manager.SendAlert, as sendAlerts and TestAlert make it.
CallSendAlert ==
    /\ saArg # None
    /\ saRes = None
    /\ saRes' = SendAlert(saArg.cfg, saArg.message, saArg.failing)
    /\ UNCHANGED <<engineVars, storeVars, newArg, newRes, evArg, evRes, saArg>>

SpecAlert == InitAlert /\ [][CallSendAlert]_vars

\* ------------------------------------------- CheckNodeStatus on its own
\* The heights a node can report (uint64): ordinary ones and the ones
\* around the sign bit and the top of the range.
Heights == {0, 985, 990, 995, 1000, SignBit - 1, SignBit, Modulus - 1}

\* The peer counts a node can report.
PeerCounts == {0, 3, 5, 6}

\* A configuration with the thresholds (blocks_behind_critical,
\* min_peers_healthy) taken from the config file.
WithThresholds(b, m) ==
    [Config(FALSE, {}, DefaultCheckInterval) EXCEPT
        !.blocksBehindCritical = b, !.minPeersHealthy = m]

\* The calls CheckNodeStatus(client, cfg) explored: what the client answers
\* and the thresholds.
EvalArgs ==
    { [ reply |-> Reply([network |-> n, local |-> l, peers |-> p], f),
        cfg   |-> WithThresholds(b, m) ] :
        n \in Heights, l \in Heights, p \in PeerCounts, f \in Failures,
        b \in {0, 5, 10}, m \in {0, 5} }

InitEval ==
    /\ config = Config(FALSE, {}, DefaultCheckInterval)
    /\ isDebugMode = FALSE
    /\ pc = "idle"
    /\ EngineInit
    /\ StoreInit
    /\ newArg = None
    /\ newRes = None
    /\ evArg \in EvalArgs
    /\ evRes = None
    /\ saArg = None
    /\ saRes = None

\* One call of CheckNodeStatus, as cmd/status.go and runCheck make it.
CallCheckNodeStatus ==
    /\ evArg # None
    /\ evRes = None
    /\ evRes' = CheckNodeStatus(evArg.reply, evArg.cfg, 1)
    /\ UNCHANGED <<engineVars, storeVars, newArg, newRes, evArg, saArg, saRes>>

SpecEval == InitEval /\ [][CallCheckNodeStatus]_vars


\* =================================================================== claims
IsInfo(line) == line.kind = "info"

IsError(line) == line.kind = "error"

\* The summary lines printed so far: one per successful evaluation.
InfoLines == SelectSeq(stdout, IsInfo)

\* The notifier was invoked for the snapshot taken at time t.
Alerted(t) == \E k \in 1..Len(alerts) : alerts[k].message.time = t

\* The i-th successful evaluation is a falling edge: unhealthy, after a
\* healthy one or after none.
FallingEdge(i) ==
    /\ ~InfoLines[i].healthy
    /\ (i = 1 \/ InfoLines[i - 1].healthy)

\* C1: with alerts enabled, the notifier is invoked in a cycle if and only
\* if the cycle's snapshot is unhealthy and the previous successfully
\* evaluated snapshot was healthy or absent (the cycle whose alert decision
\* is still to be taken is left out).
C1_FallingEdgeOnly ==
    config.alertsEnabled =>
        \A i \in 1..Len(InfoLines) :
            \/ (pc = "alert" /\ i = Len(InfoLines))
            \/ (Alerted(InfoLines[i].time) <=> FallingEdge(i))

\* C2: once a cycle with a successful evaluation has ended, LoadStatus
\* returns the snapshot of the most recent successful cycle.
C2_SavedEachCycle ==
    (pc \in {"select", "returned"} /\ Len(InfoLines) > 0) =>
        /\ LoadStatus(file).kind = "ok"
        /\ LoadStatus(file).status.timestamp.wall = InfoLines[Len(InfoLines)].time
        /\ LoadStatus(file).status.healthy = InfoLines[Len(InfoLines)].healthy

\* C3: an error inside a cycle (a failed query, a failed alert send) does
\* not end the run loop: every step taken inside a cycle, the logging of
\* its error included, leaves Start not returned, the ticker running, and
\* the goroutine inside the cycle or back at the select.
C3_ErrorsContained ==
    [][InCycle => /\ pc' \in {"eval", "update", "print", "alert", "logErr", "select"}
                  /\ ret' = Pending
                  /\ tickerOn'
                  /\ (pc = "logErr" /\ pc' # "logErr" => pc' = "select")]_vars

\* C3 witness: an error was logged, and a later cycle ran to its end.
C3_Witness ==
    /\ pc = "select"
    /\ \E i, j \in 1..Len(stdout) :
         i < j /\ IsError(stdout[i]) /\ IsInfo(stdout[j])

\* C4: a cycle whose evaluation fails changes neither lastStatus nor the
\* status file, sends no alert and prints no status line: the steps of
\* such a cycle (the failing evaluation, the logging of its error) leave
\* them as they were.
C4_FailedCycleNoEffect ==
    [][((pc = "eval" /\ pc' = "logErr") \/ (pc = "logErr" /\ err.kind = "check")) =>
          /\ lastStatus' = lastStatus
          /\ file' = file
          /\ alerts' = alerts
          /\ SelectSeq(stdout', IsInfo) = InfoLines
          /\ Len(stdout') <= Len(stdout) + 1]_vars

\* C4 witness: after a successful cycle, a cycle whose evaluation failed
\* has ended.
C4_Witness ==
    /\ pc = "select"
    /\ lastStatus # None
    /\ Len(calls) < Len(Queries)
    /\ IsError(stdout[Len(stdout)])
    /\ lastStatus.timestamp.wall < now

\* C5: no alert is ever sent for a healthy snapshot.
C5_NoAlertWhenHealthy ==
    \A i \in 1..Len(InfoLines) :
        InfoLines[i].healthy => ~Alerted(InfoLines[i].time)

\* C5 witness: with alerts enabled, a healthy cycle that followed an
\* unhealthy one has ended.
C5_Witness ==
    /\ config.alertsEnabled
    /\ pc = "select"
    /\ Len(InfoLines) >= 2
    /\ ~InfoLines[Len(InfoLines) - 1].healthy
    /\ InfoLines[Len(InfoLines)].healthy

\* C6: after a termination request Start begins at most one further cycle.
C6_AtMostOneFurtherCycle == afterRequest <= 1

\* C7: Start runs a cycle on entry, before it waits at the select, also
\* when the evaluation fails; after that a cycle begins exactly when a tick
\* is taken from ticker.C, one cycle per tick.
C7_InitialThenPerTick ==
    /\ [](pc \in {"select", "returned"} => now >= 1)
    /\ [](pc = "select" /\ now = 1 => (lastStatus # None \/ IsError(stdout[Len(stdout)])))
    /\ [][/\ (pc = "idle" /\ pc' \notin {"idle", "panic"} => pc' = "eval")
          /\ (now' # now => now' = now + 1 /\ pc = "eval")
          /\ (pc # "eval" /\ pc' = "eval" =>
                 \/ pc = "idle"
                 \/ (pc = "select" /\ tickerC' = Tail(tickerC) /\ Len(tickerC) > 0))
          /\ (Len(tickerC') < Len(tickerC) => pc = "select" /\ pc' = "eval")]_vars

\* C7 witness: the initial evaluation failed, and a tick then started the
\* second cycle.
C7_Witness ==
    /\ now = 2
    /\ pc = "update"
    /\ Len(stdout) = 3
    /\ stdout[3] = ErrorLine(TRUE)

\* C8: Start returns only after a signal was taken from sigCh or the
\* context was cancelled, and it returns nil.
C8_ReturnsNilOnTermination ==
    /\ (pc = "returned" => ret = None /\ ctxDone)
    /\ (ret # Pending => pc = "returned")

\* C8 witness: Start has returned after a cycle that ended in an error.
C8_Witness ==
    /\ pc = "returned"
    /\ \E i \in 1..Len(stdout) : IsError(stdout[i])

\* C9: ticker.C never holds more than one tick, and a tick is taken only
\* when no cycle is in progress.
C9_OneCycleAtATime ==
    /\ [](Len(tickerC) <= 1)
    /\ [][Len(tickerC') < Len(tickerC) =>
            /\ ~InCycle
            /\ cur = None
            /\ err = None
            /\ InCycle']_vars

\* C9 witness: a tick is pending while a cycle started by a tick is in
\* progress.
C9_Witness ==
    /\ InCycle
    /\ now >= 2
    /\ Len(tickerC) = 1

\* C10: once a snapshot has been saved, every LoadStatus returns a complete
\* snapshot, and none reports a missing file.
C10_AtomicSave ==
    [][saves >= 1 =>
          /\ (rdPc = "read" /\ rdPc' = "idle" => loadRes'.kind = "ok")
          /\ (loadRes' # loadRes => loadRes'.kind # "NotFound")]_vars

\* C11: every Status a successful evaluation returns has syncHealthy =
\* (heightDiff <= blocksBehindCritical), netHealthy = (peerCount >=
\* minPeersHealthy) and healthy = (syncHealthy and netHealthy); with the
\* thresholds 10 and 5 the reading (1000, 985, 3) gives heightDiff 15 and
\* the three flags false, the reading (1000, 995, 6) heightDiff 5 and the
\* three flags true.
C11_FlagsFollowThresholds ==
    (evRes # None /\ evRes.status # None) =>
        LET s == evRes.status
            c == evArg.cfg
            r == evArg.reply
        IN  /\ s.syncHealthy = (s.heightDiff <= c.blocksBehindCritical)
            /\ s.netHealthy = (s.peerCount >= c.minPeersHealthy)
            /\ s.healthy = (s.syncHealthy /\ s.netHealthy)
            /\ (c.blocksBehindCritical = 10 /\ c.minPeersHealthy = 5) =>
                   /\ (r.network = 1000 /\ r.local = 985 /\ r.peers = 3) =>
                          /\ s.heightDiff = 15
                          /\ ~s.syncHealthy /\ ~s.netHealthy /\ ~s.healthy
                   /\ (r.network = 1000 /\ r.local = 995 /\ r.peers = 6) =>
                          /\ s.heightDiff = 5
                          /\ s.syncHealthy /\ s.netHealthy /\ s.healthy

\* An evaluation at the thresholds themselves returned a healthy Status.
C11_Witness ==
    /\ evRes # None
    /\ evRes.status # None
    /\ evRes.status.heightDiff = evArg.cfg.blocksBehindCritical
    /\ evRes.status.peerCount = evArg.cfg.minPeersHealthy
    /\ evArg.cfg.blocksBehindCritical = 5
    /\ evRes.status.healthy

\* C12: for all uint64 heights the snapshot's heightDiff is the
\* mathematical difference networkHeight - localHeight, and syncHealthy is
\* decided by that difference: the conversion to int64 never wraps.
C12_HeightDiffIsDifference ==
    (evRes # None /\ evRes.status # None) =>
        LET s == evRes.status
            d == evArg.reply.network - evArg.reply.local
        IN  /\ s.heightDiff = d
            /\ s.syncHealthy = (d <= evArg.cfg.blocksBehindCritical)

\* C13: the five queries are issued in order; at the first that fails no
\* later one is issued, no Status is returned and the error names that
\* query; a Status is returned only when all five succeeded.
C13_FailFastInOrder ==
    evRes # None =>
        LET f == evArg.reply.fail
        IN  IF f = "none"
            THEN /\ evRes.status # None
                 /\ evRes.err = "none"
                 /\ evRes.calls = Queries
            ELSE \E i \in 1..Len(Queries) :
                 /\ Queries[i] = f
                 /\ evRes.calls = SubSeq(Queries, 1, i)
                 /\ evRes.status = None
                 /\ evRes.err = f

\* The peer count query failed: three queries issued, no Status.
C13_Witness ==
    /\ evRes # None
    /\ evArg.reply.fail = Queries[3]
    /\ evRes.calls = SubSeq(Queries, 1, 3)
    /\ evRes.status = None

\* C14: NewEngine returns an Engine exactly when the configuration is
\* present, its endpoint is non-empty and the client could be constructed;
\* with an empty endpoint no client construction is attempted; a client
\* construction failure is wrapped in the error returned; in every failure
\* no Engine is returned and no cycle ever runs.
C14_ConstructionFailsEarly ==
    /\ (pc = "new") = (newRes = None)
    /\ newRes # None =>
        LET present == newArg.cfg # None
            named   == present /\ newArg.cfg.rpcEndpoint # ""
        IN  /\ (newRes.engine # None) = (named /\ ~newArg.dialFails)
            /\ (newRes.engine # None) = (newRes.err = None)
            /\ (present /\ ~named) =>
                   newRes.clientCalls = 0 /\ newRes.opened = 0
            /\ (named /\ newArg.dialFails) =>
                   /\ newRes.err.kind = "failed to create RPC client"
                   /\ newRes.err.cause # None
                   /\ newRes.err.cause.cause.kind = "openrpc"
            /\ newRes.engine = None =>
                   /\ pc = "exit"
                   /\ now = 0
                   /\ calls = <<>>
                   /\ alerts = <<>>
            /\ newRes.engine # None =>
                   /\ config = newArg.cfg
                   /\ isDebugMode = newArg.debug
                   /\ newRes.engine.client.endpoint = newArg.cfg.rpcEndpoint

\* NewEngine was called with a configuration whose endpoint is empty.
C14_Witness ==
    /\ newRes # None
    /\ newArg.cfg # None
    /\ newArg.cfg.rpcEndpoint = ""
    /\ newRes.engine = None
    /\ newRes.err.kind = "RPC endpoint cannot be empty"

\* Two snapshots are equal: field by field, the timestamps as instants
\* (time.Time.Equal).
SameSnapshot(a, b) ==
    /\ a.timestamp.wall = b.timestamp.wall
    /\ [a EXCEPT !.timestamp = 0] = [b EXCEPT !.timestamp = 0]

\* The bytes are the serialization of some snapshot.
Parseable(data) ==
    \E r \in Readings, t \in 1..MaxSaves : data = Marshal(Snapshot(r, t))

\* C15: the store holds one record that each save overwrites: whenever at
\* least one save has completed and none is in progress, the directory and
\* the file exist, the file holds exactly the serialization of the snapshot
\* last saved (whatever was saved before, the same snapshot included), and
\* a load that reads it returns a snapshot equal to that one.
C15_RoundTrip ==
    /\ [](  (svPc = "idle" /\ saves >= 1) =>
              /\ dirExists
              /\ file = [exists |-> TRUE, data |-> Marshal(svArg)]
              /\ LoadStatus(file).kind = "ok"
              /\ SameSnapshot(LoadStatus(file).status, svArg) )
    /\ [][ (svPc = "idle" /\ saves >= 1 /\ rdPc = "read" /\ rdPc' = "idle") =>
              /\ loadRes'.kind = "ok"
              /\ SameSnapshot(loadRes'.status, svArg) ]_vars

\* A second save has overwritten the first and a load has returned the
\* snapshot saved last.
C15_Witness ==
    /\ saves = 2
    /\ svPc = "idle"
    /\ rdPc = "idle"
    /\ loadRes # None
    /\ loadRes.kind = "ok"
    /\ SameSnapshot(loadRes.status, svArg)
    /\ loadRes.status.timestamp # svArg.timestamp

SameReadings(a, b) ==
    /\ a.local = b.local
    /\ a.network = b.network
    /\ a.peers = b.peers

Lifecycle ==
    IF pc \in {"returned", "panic"} THEN 3
    ELSE IF ctxDone THEN (IF pc = "idle" THEN 3 ELSE 2)
    ELSE IF pc = "idle" THEN 0
    ELSE 1

\* C18: the lifecycle only moves forward, and once the engine is stopped
\* (Stop() was called or Start has returned) no further cycle begins, also
\* not when Start is called on an engine stopped before.
C18_StoppedIsTerminal ==
    [][ /\ Lifecycle' >= Lifecycle
        /\ (ctxDone \/ pc = "returned") => ~(pc # "eval" /\ pc' = "eval") ]_vars

\* The elements of a sequence.
Range(seq) == {seq[i] : i \in 1..Len(seq)}

\* C19: SendAlert tries every enabled channel once, whether or not an
\* earlier one failed; it returns nil exactly when no channel tried failed,
\* and otherwise one error that names the channels that failed and no
\* other.
C19_AllChannelsTried ==
    saRes # None =>
        LET enabled == IF saArg.cfg.alertsEnabled THEN saArg.cfg.channels ELSE {}
            failed  == enabled \cap saArg.failing
        IN  /\ Range(saRes.tried) = enabled
            /\ Len(saRes.tried) = Cardinality(enabled)
            /\ (saRes.err = None) = (failed = {})
            /\ saRes.err # None =>
                   /\ Range(saRes.err.channels) = failed
                   /\ Len(saRes.err.channels) = Cardinality(failed)

\* The three channels are enabled, the first and the last fail.
C19_Witness ==
    /\ saRes # None
    /\ saArg.cfg.alertsEnabled
    /\ saArg.cfg.channels = ChannelSet
    /\ saArg.failing = {Channels[1], Channels[3]}
    /\ saRes.tried = Channels
    /\ saRes.err # None
    /\ saRes.err.channels = <<Channels[1], Channels[3]>>

\* lastStatus is the snapshot of the last successful evaluation reported
\* on stdout, or nil when none was reported.
MatchesLastReport ==
    IF Len(InfoLines) = 0
    THEN lastStatus = None
    ELSE /\ lastStatus # None
         /\ InfoLine(lastStatus) = InfoLines[Len(InfoLines)]

\* C20: lastStatus is nil until an evaluation has succeeded; from the
\* moment runCheck has stored a snapshot it is the snapshot of the most
\* recent successful evaluation, in particular at the end of every cycle
\* and also when the alert of that cycle could not be sent.
C20_LastStatusIsLatest ==
    /\ pc = "print" => (lastStatus = cur /\ lastStatus # None)
    /\ pc # "print" => MatchesLastReport
    /\ (pc \in {"alert", "logErr"} /\ cur # None) => lastStatus = cur
    /\ lastStatus # None => lastStatus.timestamp.wall <= now

\* The alert of the second successful cycle failed; lastStatus is that
\* cycle's snapshot.
C20_Witness ==
    /\ pc = "logErr"
    /\ cur # None
    /\ err # None
    /\ err.kind = "alert"
    /\ Len(InfoLines) = 2
    /\ lastStatus = cur
    /\ InfoLine(lastStatus) # InfoLines[1]

\* The summary line of the snapshot being processed has been printed.
Reported(status) ==
    \E i \in 1..Len(InfoLines) : InfoLines[i] = InfoLine(status)

\* C21: within a cycle the alert decision comes before the summary line
\* and before previous = current: when runCheck decides whether to alert,
\* lastStatus is still the snapshot of the prior cycle and the line of the
\* current snapshot has not been printed.
C21_StepOrder ==
    pc = "alert" => (lastStatus # cur /\ ~Reported(cur))

IsDebug(line) == line.kind = "debug"

\* What stdout holds of the summary and breakdown lines: the summary lines
\* are of distinct, increasing snapshots; every snapshot that was alerted
\* about, that the cycle is past printing, or that lastStatus holds has its
\* summary line; in debug mode each summary line is followed by the three
\* lines of the breakdown of the same snapshot, otherwise there is no
\* breakdown line at all.
SummaryLines ==
    /\ \A i, j \in 1..Len(InfoLines) :
          i < j => InfoLines[i].time < InfoLines[j].time
    /\ \A k \in 1..Len(alerts) :
          \E i \in 1..Len(InfoLines) :
              /\ InfoLines[i].time = alerts[k].message.time
              /\ ~InfoLines[i].healthy
    /\ (cur # None /\ pc \in {"alert", "logErr"}) => Reported(cur)
    /\ (lastStatus # None /\ pc # "print") => Reported(lastStatus)
    /\ Len(SelectSeq(stdout, IsDebug)) =
          (IF isDebugMode THEN 3 * Len(InfoLines) ELSE 0)
    /\ isDebugMode =>
          \A i \in 1..Len(stdout) :
              IsInfo(stdout[i]) =>
                  /\ i + 3 <= Len(stdout)
                  /\ \A d \in 1..3 :
                        /\ IsDebug(stdout[i + d])
                        /\ stdout[i + d].time = stdout[i].time

\* C22: every cycle whose evaluation succeeded has printed exactly one
\* summary line for its snapshot, healthy or not and whether or not its
\* alert could be sent, and the breakdown exactly in debug mode; a line
\* printed stays printed.
C22_OneSummaryPerSnapshot ==
    /\ []SummaryLines
    /\ [][ /\ Len(stdout') >= Len(stdout)
           /\ SubSeq(stdout', 1, Len(stdout)) = stdout ]_vars

\* In debug mode the alert of an unhealthy snapshot failed: its summary
\* line and its breakdown are on stdout, followed by the error line.
C22_Witness ==
    /\ pc = "select"
    /\ isDebugMode
    /\ Len(stdout) >= 5
    /\ IsError(stdout[Len(stdout)])
    /\ IsDebug(stdout[Len(stdout) - 1])
    /\ IsInfo(stdout[Len(stdout) - 4])
    /\ ~stdout[Len(stdout) - 4].healthy
    /\ lastStatus # None
    /\ stdout[Len(stdout) - 4] = InfoLine(lastStatus)

\* C23: every message handed to SendAlert carries the timestamp of the
\* snapshot of the cycle, the sync section (blocks behind, local and
\* network height) exactly when syncHealthy is false, the peers section
\* (peer count and configured minimum) exactly when netHealthy is false,
\* and so at least one of the two sections.
C23_MessageSections ==
    [][ alerts' # alerts =>
          LET m == alerts'[Len(alerts')].message
          IN  /\ Len(alerts') = Len(alerts) + 1
              /\ m.time = cur.timestamp.wall
              /\ (m.sync # None) = ~cur.syncHealthy
              /\ (m.sync # None) =>
                     /\ m.sync.behind = cur.networkHeight - cur.localHeight
                     /\ m.sync.local = cur.localHeight
                     /\ m.sync.network = cur.networkHeight
              /\ (m.peers # None) = ~cur.netHealthy
              /\ (m.peers # None) =>
                     /\ m.peers.count = cur.peerCount
                     /\ m.peers.min = config.minPeersHealthy
              /\ (m.sync # None \/ m.peers # None) ]_vars

\* A message about a snapshot whose only failed check is the peers check,
\* and an earlier one with both sections.
C23_Witness ==
    /\ Len(alerts) >= 2
    /\ alerts[1].message.sync # None
    /\ alerts[1].message.peers # None
    /\ alerts[2].message.sync = None
    /\ alerts[2].message.peers # None
    /\ alerts[2].message.peers.count = 3
    /\ alerts[2].message.peers.min = MinPeersHealthy

\* C24: with Alerts.Enabled false the engine never calls SendAlert,
\* whatever the health of the snapshots and the per-channel flags; and
\* SendAlert itself, called with such a configuration, tries no channel and
\* returns nil.
C24_DisabledMeansSilent ==
    ~config.alertsEnabled =>
        /\ alerts = <<>>
        /\ (err # None => err.kind # "alert")
        /\ \A ch \in SUBSET ChannelSet, f \in SUBSET ChannelSet :
              LET cfg == [config EXCEPT !.channels = ch]
                  res == SendAlert(cfg, None, f)
              IN  res.tried = <<>> /\ res.err = None

\* Alerts are disabled, the three channels are enabled; the node went from
\* healthy to unhealthy and no alert was attempted.
C24_Witness ==
    /\ ~config.alertsEnabled
    /\ config.channels = ChannelSet
    /\ pc = "select"
    /\ Len(InfoLines) >= 2
    /\ InfoLines[1].healthy
    /\ ~InfoLines[2].healthy
    /\ alerts = <<>>

\* C25: for every configuration NewEngine accepted, Start creates the
\* ticker with an interval of at least one second and goes on to the
\* initial cycle; it never crashes.
C25_StartAlwaysRuns ==
    /\ [](pc # "panic")
    /\ [][ (pc = "idle" /\ pc' # "idle") =>
              /\ config.checkInterval >= 1
              /\ tickerOn'
              /\ pc' = "eval" ]_vars

====
